---- MODULE Spec2Model ----
(***************************************************************************)
(* AES.js: the cipher engine of src/implementation.js (key expansion, the  *)
(* forward and inverse block transforms, GF(2^8) arithmetic) and the       *)
(* padding / chunk driver of encrypt() and decrypt(), as a state machine.  *)
(* Buffers are sequences of bytes: JS index i is TLA+ index i + 1.         *)
(***************************************************************************)
EXTENDS Integers, Sequences, FiniteSets, TLC

(* ------------------------------------------------------------------ *)
(* Bounds of the model                                                  *)
(* ------------------------------------------------------------------ *)

\* longest plaintext handed to encrypt(), in bytes
MaxLen == 33

(* ------------------------------------------------------------------ *)
(* JavaScript values                                                    *)
(* ------------------------------------------------------------------ *)

\* the value of a read past the end of a Buffer or Array
Undefined == -1

\* ToInt32 on the operands of ^ : undefined becomes 0
ToInt32(x) == IF x = Undefined THEN 0 ELSE x

RECURSIVE BitXor(_, _)
\* a ^ b on non-negative integers, bit by bit
BitXor(a, b) ==
  IF a = 0 THEN b
  ELSE IF b = 0 THEN a
  ELSE ((a + b) % 2) + 2 * BitXor(a \div 2, b \div 2)

\* a ^ b for two bytes, tabulated once
XorTable == [a \in 0..255 |-> [b \in 0..255 |-> BitXor(a, b)]]

\* the JS operator ^
Xor(x, y) ==
  LET a == ToInt32(x)
      b == ToInt32(y)
  IN  IF a < 256 /\ b < 256 THEN XorTable[a][b] ELSE BitXor(a, b)

\* buf[i] in JS
Get(buf, i) == IF i >= 0 /\ i < Len(buf) THEN buf[i + 1] ELSE Undefined

\* a store into a Buffer keeps the low 8 bits
ToByte(x) == ToInt32(x) % 256

\* Buffer.prototype.slice(start, end): negative indexes count from the end
Slice(buf, start, end) ==
  LET len == Len(buf)
      s0  == IF start < 0 THEN (IF start + len < 0 THEN 0 ELSE start + len)
             ELSE (IF start > len THEN len ELSE start)
      e0  == IF end < 0 THEN (IF end + len < 0 THEN 0 ELSE end + len)
             ELSE (IF end > len THEN len ELSE end)
  IN  IF e0 <= s0 THEN << >> ELSE SubSeq(buf, s0 + 1, e0)

(* ------------------------------------------------------------------ *)
(* Tables                                                               *)
(* ------------------------------------------------------------------ *)

sBox ==
  << 99, 124, 119, 123, 242, 107, 111, 197, 48, 1, 103, 43, 254, 215, 171, 118,
     202, 130, 201, 125, 250, 89, 71, 240, 173, 212, 162, 175, 156, 164, 114, 192,
     183, 253, 147, 38, 54, 63, 247, 204, 52, 165, 229, 241, 113, 216, 49, 21,
     4, 199, 35, 195, 24, 150, 5, 154, 7, 18, 128, 226, 235, 39, 178, 117,
     9, 131, 44, 26, 27, 110, 90, 160, 82, 59, 214, 179, 41, 227, 47, 132,
     83, 209, 0, 237, 32, 252, 177, 91, 106, 203, 190, 57, 74, 76, 88, 207,
     208, 239, 170, 251, 67, 77, 51, 133, 69, 249, 2, 127, 80, 60, 159, 168,
     81, 163, 64, 143, 146, 157, 56, 245, 188, 182, 218, 33, 16, 255, 243, 210,
     205, 12, 19, 236, 95, 151, 68, 23, 196, 167, 126, 61, 100, 93, 25, 115,
     96, 129, 79, 220, 34, 42, 144, 136, 70, 238, 184, 20, 222, 94, 11, 219,
     224, 50, 58, 10, 73, 6, 36, 92, 194, 211, 172, 98, 145, 149, 228, 121,
     231, 200, 55, 109, 141, 213, 78, 169, 108, 86, 244, 234, 101, 122, 174, 8,
     186, 120, 37, 46, 28, 166, 180, 198, 232, 221, 116, 31, 75, 189, 139, 138,
     112, 62, 181, 102, 72, 3, 246, 14, 97, 53, 87, 185, 134, 193, 29, 158,
     225, 248, 152, 17, 105, 217, 142, 148, 155, 30, 135, 233, 206, 85, 40, 223,
     140, 161, 137, 13, 191, 230, 66, 104, 65, 153, 45, 15, 176, 84, 187, 22 >>

\* the forward table in the place of the inverse table
invSBoxForward == [x \in 1..256 |-> sBox[x]]

invSBox ==
  << 82, 9, 106, 213, 48, 54, 165, 56, 191, 64, 163, 158, 129, 243, 215, 251,
     124, 227, 57, 130, 155, 47, 255, 135, 52, 142, 67, 68, 196, 222, 233, 203,
     84, 123, 148, 50, 166, 194, 35, 61, 238, 76, 149, 11, 66, 250, 195, 78,
     8, 46, 161, 102, 40, 217, 36, 178, 118, 91, 162, 73, 109, 139, 209, 37,
     114, 248, 246, 100, 134, 104, 152, 22, 212, 164, 92, 204, 93, 101, 182, 146,
     108, 112, 72, 80, 253, 237, 185, 218, 94, 21, 70, 87, 167, 141, 157, 132,
     144, 216, 171, 0, 140, 188, 211, 10, 247, 228, 88, 5, 184, 179, 69, 6,
     208, 44, 30, 143, 202, 63, 15, 2, 193, 175, 189, 3, 1, 19, 138, 107,
     58, 145, 17, 65, 79, 103, 220, 234, 151, 242, 207, 206, 240, 180, 230, 115,
     150, 172, 116, 34, 231, 173, 53, 133, 226, 249, 55, 232, 28, 117, 223, 110,
     71, 241, 26, 113, 29, 41, 197, 137, 111, 183, 98, 14, 170, 24, 190, 27,
     252, 86, 62, 75, 198, 210, 121, 32, 154, 219, 192, 254, 120, 205, 90, 244,
     31, 221, 168, 51, 136, 7, 199, 49, 177, 18, 16, 89, 39, 128, 236, 95,
     96, 81, 127, 169, 25, 181, 74, 13, 45, 229, 122, 159, 147, 201, 156, 239,
     160, 224, 59, 77, 174, 42, 245, 176, 200, 235, 187, 60, 131, 83, 153, 97,
     23, 43, 4, 126, 186, 119, 214, 38, 225, 105, 20, 99, 85, 33, 12, 125 >>

roundConstant ==
  << <<0, 0, 0, 0>>, <<1, 0, 0, 0>>, <<2, 0, 0, 0>>, <<4, 0, 0, 0>>,
     <<8, 0, 0, 0>>, <<16, 0, 0, 0>>, <<32, 0, 0, 0>>, <<64, 0, 0, 0>>,
     <<128, 0, 0, 0>>, <<27, 0, 0, 0>>, <<54, 0, 0, 0>> >>

(* ------------------------------------------------------------------ *)
(* Galois field arithmetic                                              *)
(* ------------------------------------------------------------------ *)

RECURSIVE multiplyLoop(_, _, _, _)
\* the while loop of multiply(): p accumulates, a doubles, b shifts right
multiplyLoop(a, b, p, currentIteration) ==
  IF a # 0 /\ b # 0 /\ currentIteration < 8
  THEN LET p1 == IF b % 2 = 1 THEN Xor(p, a) ELSE p
           b1 == (b \div 2) % 128
           carry == (a \div 128) % 2 = 1
           a1 == IF carry THEN Xor(2 * a, 283) ELSE 2 * a
       IN  multiplyLoop(a1, b1, p1, currentIteration + 1)
  ELSE p

\* multiply entering its loop one iteration late
multiplySevenIterations(a, b) == multiplyLoop(a, b, 0, 1)

\* multiply without the high bit of b
multiplyLowBits(a, b) == multiplyLoop(a, b % 128, 0, 0)

multiply(a, b) == multiplyLoop(a, b, 0, 0)

RECURSIVE multiplyCount(_, _, _)
\* currentIteration when the while loop of multiply() ends
multiplyCount(a, b, currentIteration) ==
  IF a # 0 /\ b # 0 /\ currentIteration < 8
  THEN LET b1 == (b \div 2) % 128
           carry == (a \div 128) % 2 = 1
           a1 == IF carry THEN Xor(2 * a, 283) ELSE 2 * a
       IN  multiplyCount(a1, b1, currentIteration + 1)
  ELSE currentIteration

(* ------------------------------------------------------------------ *)
(* Key schedule                                                         *)
(* ------------------------------------------------------------------ *)

\* applies the sBox to every byte of the word
subWord(word) ==
  << sBox[word[1] + 1], sBox[word[2] + 1], sBox[word[3] + 1], sBox[word[4] + 1] >>

\* rotates a word to the left one byte
rotateWord(word) == << word[2], word[3], word[4], word[1] >>

\* temp[t] ^= constant[t] for the four bytes of a Buffer
xorWord(temp, constant) ==
  << ToByte(Xor(temp[1], constant[1])), ToByte(Xor(temp[2], constant[2])),
     ToByte(Xor(temp[3], constant[3])), ToByte(Xor(temp[4], constant[4])) >>

\* expandTemp without the rotation of the word
expandTempNoRotate(prev, i, keyLength) ==
  IF i % keyLength = 0
  THEN xorWord(subWord(prev), roundConstant[(i \div keyLength) + 1])
  ELSE IF keyLength > 6 /\ i % keyLength = 4
  THEN subWord(prev)
  ELSE prev

\* expandTemp with the round constant of the index before
expandTempEarlierConstant(prev, i, keyLength) ==
  IF i % keyLength = 0
  THEN xorWord(subWord(rotateWord(prev)), roundConstant[i \div keyLength])
  ELSE IF keyLength > 6 /\ i % keyLength = 4
  THEN subWord(prev)
  ELSE prev

\* expandTemp without the subWord of the long keys at i % keyLength = 4
expandTempNoExtraSubWord(prev, i, keyLength) ==
  IF i % keyLength = 0
  THEN xorWord(subWord(rotateWord(prev)), roundConstant[(i \div keyLength) + 1])
  ELSE prev

\* the word temp of keyExpansion for schedule index i, from word i - 1
expandTemp(prev, i, keyLength) ==
  IF i % keyLength = 0
  THEN xorWord(subWord(rotateWord(prev)), roundConstant[(i \div keyLength) + 1])
  ELSE IF keyLength > 6 /\ i % keyLength = 4
  THEN subWord(prev)
  ELSE prev

RECURSIVE expandLoop(_, _, _, _)
\* the second loop of keyExpansion: ks holds words 0..i-1
expandLoop(ks, i, keyLength, total) ==
  IF i < total
  THEN LET temp == expandTemp(ks[i], i, keyLength)
       IN  expandLoop(Append(ks, xorWord(ks[i - keyLength + 1], temp)),
                      i + 1, keyLength, total)
  ELSE ks

RECURSIVE firstWords(_, _, _)
\* the first loop of keyExpansion: words i..keyLength-1 are the key verbatim
firstWords(key, i, keyLength) ==
  IF i < keyLength
  THEN << << ToByte(Get(key, 4 * i)), ToByte(Get(key, 4 * i + 1)),
             ToByte(Get(key, 4 * i + 2)), ToByte(Get(key, 4 * i + 3)) >> >>
         \o firstWords(key, i + 1, keyLength)
  ELSE << >>

\* keyExpansionThrows with the check of the 128-bit key only
keyExpansionThrows128Only(key, keyLength) ==
  keyLength = 4 /\ Len(key) # 16

\* keyExpansion throws for a key of the wrong length
keyExpansionThrows(key, keyLength) ==
  \/ keyLength = 4 /\ Len(key) # 16
  \/ keyLength = 8 /\ Len(key) # 32

\* the schedule keyExpansion returns when it does not throw
keyExpansion(key, blockSize, keyLength, numberOfRounds) ==
  expandLoop(firstWords(key, 0, keyLength), keyLength, keyLength,
             blockSize * (numberOfRounds + 1))

(* ------------------------------------------------------------------ *)
(* Block transform engine                                               *)
(* ------------------------------------------------------------------ *)

\* copyInputToState filling the state row by row
copyInputToStateRowMajor(input) ==
  [row \in 0..3 |-> [column \in 0..3 |-> Get(input, 4 * row + column)]]

\* state[row][column] = input[row + 4 * column]
copyInputToState(input) ==
  [row \in 0..3 |-> [column \in 0..3 |-> Get(input, row + 4 * column)]]

\* output[row + 4 * column] = state[row][column], stored as bytes
copyStateToOutput(state) ==
  [k \in 1..16 |-> ToByte(state[(k - 1) % 4][(k - 1) \div 4])]

addRoundKey(state, keySchedule, round) ==
  [row \in 0..3 |-> [column \in 0..3 |->
     Xor(state[row][column], keySchedule[round * 4 + column + 1][row + 1])]]

subBytes(state) ==
  [row \in 0..3 |-> [column \in 0..3 |-> sBox[state[row][column] + 1]]]

invSubBytes(state) ==
  [row \in 0..3 |-> [column \in 0..3 |-> invSBox[state[row][column] + 1]]]

\* shiftRows rotating to the right
shiftRowsRight(state) ==
  [row \in 0..3 |-> [column \in 0..3 |->
     IF row = 0 THEN state[row][column] ELSE state[row][(column - row + 4) % 4]]]

shiftRows(state) ==
  [row \in 0..3 |-> [column \in 0..3 |->
     IF row = 0 THEN state[row][column] ELSE state[row][(column + row) % 4]]]

\* invShiftRows shifting to the left, as shiftRows does
invShiftRowsLeft(state) ==
  [row \in 0..3 |-> [column \in 0..3 |->
     IF row = 0 THEN state[row][column] ELSE state[row][(column + row) % 4]]]

invShiftRows(state) ==
  [row \in 0..3 |-> [column \in 0..3 |->
     IF row = 0 THEN state[row][column] ELSE state[row][(column - row + 4) % 4]]]

\* shiftByte XORing 0x1b, leaving the carried bit in place
shiftByteCarried(b) == IF (b \div 128) % 2 = 1 THEN Xor(2 * b, 27) ELSE 2 * b

\* the doubling shortcut of mixColumns
shiftByte(b) == IF (b \div 128) % 2 = 1 THEN Xor(2 * b, 283) ELSE 2 * b

Xor5(a, b, c, d, e) == Xor(Xor(Xor(Xor(a, b), c), d), e)

\* one column of mixColumns: the new state[0..3][column], as a tuple
mixColumn(copy) ==
  LET shift == [row \in 0..3 |-> shiftByte(copy[row])]
  IN  << Xor5(shift[0], copy[1], shift[1], copy[2], copy[3]),
         Xor5(copy[0], shift[1], copy[2], shift[2], copy[3]),
         Xor5(copy[0], copy[1], shift[2], copy[3], shift[3]),
         Xor5(copy[0], shift[0], copy[1], copy[2], shift[3]) >>

mixColumns(state) ==
  LET col == << mixColumn([row \in 0..3 |-> state[row][0]]),
                mixColumn([row \in 0..3 |-> state[row][1]]),
                mixColumn([row \in 0..3 |-> state[row][2]]),
                mixColumn([row \in 0..3 |-> state[row][3]]) >>
  IN  [row \in 0..3 |-> [column \in 0..3 |-> col[column + 1][row + 1]]]

Xor4(a, b, c, d) == Xor(Xor(Xor(a, b), c), d)

\* one column of invMixColumns: the new state[0..3][column], as a tuple
invMixColumn(copy) ==
  << Xor4(multiply(14, copy[0]), multiply(11, copy[1]),
          multiply(13, copy[2]), multiply(9, copy[3])),
     Xor4(multiply(9, copy[0]), multiply(14, copy[1]),
          multiply(11, copy[2]), multiply(13, copy[3])),
     Xor4(multiply(13, copy[0]), multiply(9, copy[1]),
          multiply(14, copy[2]), multiply(11, copy[3])),
     Xor4(multiply(11, copy[0]), multiply(13, copy[1]),
          multiply(9, copy[2]), multiply(14, copy[3])) >>

invMixColumns(state) ==
  LET col == << invMixColumn([row \in 0..3 |-> state[row][0]]),
                invMixColumn([row \in 0..3 |-> state[row][1]]),
                invMixColumn([row \in 0..3 |-> state[row][2]]),
                invMixColumn([row \in 0..3 |-> state[row][3]]) >>
  IN  [row \in 0..3 |-> [column \in 0..3 |-> col[column + 1][row + 1]]]

\* cipherThrows rejecting short inputs only
cipherThrowsShort(input) == Len(input) < 16

\* cipher() throws when the input is not 16 bytes long
cipherThrows(input) == Len(input) # 16

(* ------------------------------------------------------------------ *)
(* Padding                                                              *)
(* ------------------------------------------------------------------ *)

\* padInput adding nothing to a message that fills its last block
padInputWhenPartial(input) ==
  LET size == Len(input)
      paddingLength == (16 - (size % 16)) % 16
      padding == [i \in 1..paddingLength |-> IF i = paddingLength THEN paddingLength ELSE 0]
  IN  input \o padding

\* padInput repeating the pad length in every padding byte
padInputRepeating(input) ==
  LET size == Len(input)
      paddingLength == 16 - (size % 16)
      padding == [i \in 1..paddingLength |-> paddingLength]
  IN  input \o padding

padInput(input) ==
  LET size == Len(input)
      paddingLength == 16 - (size % 16)
      padding == [i \in 1..paddingLength |-> IF i = paddingLength THEN paddingLength ELSE 0]
  IN  input \o padding

\* removePaddingFromInput with the end of the slice clamped at 0
removePaddingClamped(input) ==
  LET paddingLength == Get(input, Len(input) - 1)
  IN  IF Len(input) - paddingLength < 0 THEN << >>
      ELSE Slice(input, 0, Len(input) - paddingLength)

\* removePaddingFromInput dropping the whole block when its last byte is 0
removePaddingZeroDropsBlock(input) ==
  LET paddingLength == Get(input, Len(input) - 1)
  IN  IF paddingLength = 0 THEN << >>
      ELSE Slice(input, 0, Len(input) - paddingLength)

removePaddingFromInput(input) ==
  LET paddingLength == Get(input, Len(input) - 1)
  IN  Slice(input, 0, Len(input) - paddingLength)

(* ------------------------------------------------------------------ *)
(* Inputs of the calls                                                  *)
(* ------------------------------------------------------------------ *)

KeySizes == {128, 256}

\* key sizes map to the number of rounds and the key length in words
numberOfRoundsOf(size) == IF size = 128 THEN 10 ELSE 14

keyLengthOf(size) == IF size = 128 THEN 4 ELSE 8

\* keys 00 01 02 ..., of valid and invalid lengths
KeyLengths == {15, 16, 17, 32, 33}

Key(len) == [k \in 1..len |-> k - 1]

\* the cipher keys of the key expansion tests
cipherKey128Bit ==
  << 43, 126, 21, 22, 40, 174, 210, 166, 171, 247, 21, 136, 9, 207, 79, 60 >>

cipherKey256Bit ==
  << 96, 61, 235, 16, 21, 202, 113, 190, 43, 115, 174, 240, 133, 125, 119, 129,
     31, 53, 44, 7, 59, 97, 8, 215, 45, 152, 16, 163, 9, 20, 223, 244 >>

\* keys handed directly to keyExpansion()
ExpansionKeys ==
  {Key(len) : len \in KeyLengths} \cup {cipherKey128Bit, cipherKey256Bit}

\* messages 00 11 22 ... of every length up to MaxLen
Message(len) == [k \in 1..len |-> (17 * (k - 1)) % 256]

Messages == {Message(len) : len \in 0..MaxLen}

\* 16-byte blocks 00 11 22 ... ee followed by a chosen last byte
LastBytes == {0, 1, 16, 17, 31, 32, 255}

Block(last) == [k \in 1..16 |-> IF k = 16 THEN last ELSE (17 * (k - 1)) % 256]

\* buffers handed directly to cipher() and inverseCipher()
BlockInputs ==
  {Block(last) : last \in LastBytes} \cup {Message(len) : len \in {0, 15, 17}}

RECURSIVE Flatten(_)
\* the bytes of a sequence of buffers, in order
Flatten(bufs) ==
  IF bufs = << >> THEN << >> ELSE Head(bufs) \o Flatten(Tail(bufs))

(* ------------------------------------------------------------------ *)
(* State                                                                *)
(* ------------------------------------------------------------------ *)

VARIABLES
  pc,           \* position of the running call
  op,           \* the exported function that was called
  keySize,      \* argument keySize
  key,          \* argument key
  input,        \* argument input
  origin,       \* the call whose output is the input of this call
  keySchedule,  \* the schedule keyExpansion returned
  paddedInput,  \* padInput(input) of encrypt()
  i,            \* chunk index of the loop of encrypt() / decrypt()
  inputSlice,   \* the buffer the block engine was called with
  state,        \* the 4 x 4 state of cipher() / inverseCipher()
  round,        \* the round variable of cipher() / inverseCipher()
  step,         \* the next step of cipher() / inverseCipher()
  applied,      \* the steps cipher() / inverseCipher() has applied, in order
  writes,       \* buffers handed to stream.write, in order
  promises,     \* the per-chunk promises of encrypt() / decrypt()
  promise,      \* the promise encrypt() / decrypt() returned
  transformed,  \* completed block transforms: input and output
  result,       \* the buffer a direct cipher() / inverseCipher() call returned
  error,        \* the error thrown, or the rejection reason
  opened,       \* fs.open was called on the destination
  history,      \* block transforms of the earlier encrypt() / decrypt() calls
  multiplicands,    \* arguments a and b of multiply()
  product,          \* the number multiply() returned
  currentIteration, \* currentIteration of multiply() at the end of its loop
  args,             \* the parsed command line handed to start()
  env,              \* process.env
  cliPc,            \* position of the command line program
  outputFilename,   \* outputFilename of start()
  calledWith,       \* the arguments start() called encrypt() / decrypt() with
  printed           \* what the program printed last

field == <<multiplicands, product, currentIteration>>
process == <<args, env, cliPc, outputFilename, calledWith, printed>>
call == <<op, keySize, key, input, origin, history, field, process>>
engine == <<inputSlice, state, round, step, applied>>
sink == <<writes, promises>>
vars == <<pc, call, keySchedule, paddedInput, i, engine, sink, promise,
          transformed, result, error, opened>>

NoOrigin == [op |-> "none", input |-> << >>]

NumberOfRounds == numberOfRoundsOf(keySize)

\* the transform the running call applies to its blocks
Forward == op \in {"encrypt", "cipher"}

\* no call of the module is running
NoCall ==
  /\ pc = "idle"
  /\ op = "none"
  /\ keySize = 128
  /\ key = << >>
  /\ input = << >>
  /\ origin = NoOrigin
  /\ keySchedule = << >>
  /\ paddedInput = << >>
  /\ i = 0
  /\ inputSlice = << >>
  /\ state = << >>
  /\ round = 0
  /\ step = "none"
  /\ applied = << >>
  /\ writes = << >>
  /\ promises = << >>
  /\ promise = "none"
  /\ transformed = << >>
  /\ result = << >>
  /\ error = "none"
  /\ opened = FALSE
  /\ history = {}

\* multiply() was not called
NoMultiply ==
  /\ multiplicands = << >>
  /\ product = 0
  /\ currentIteration = 0

\* the command line program was not started
NoProcess ==
  /\ args = << >>
  /\ env = << >>
  /\ cliPc = "none"
  /\ outputFilename = "undefined"
  /\ calledWith = << >>
  /\ printed = "nothing"

Init == NoCall /\ NoMultiply /\ NoProcess

\* every write callback of a finished encrypt() reported success
Written ==
  /\ op = "encrypt"
  /\ pc = "after"
  /\ promise = "fulfilled"
  /\ \A j \in 1..Len(promises) : promises[j] = "fulfilled"

\* a direct call returned
Returned(f) == op = f /\ pc = "returned"

\* state left over from an earlier call is dropped when a call starts
Fresh ==
  /\ i' = 0
  /\ inputSlice' = << >>
  /\ state' = << >>
  /\ round' = 0
  /\ step' = "none"
  /\ applied' = << >>
  /\ writes' = << >>
  /\ promises' = << >>
  /\ transformed' = << >>
  /\ result' = << >>

(* ------------------------------------------------------------------ *)
(* encrypt() and decrypt(): the synchronous part                        *)
(* ------------------------------------------------------------------ *)

\* the error keyExpansion throws
keyError(size) == IF size = 128 THEN "InvalidKey128" ELSE "InvalidKey256"

\* encrypt(keySize, key, input, output) up to the call of fs.open
CallEncrypt(size, k, in) ==
  /\ pc = "idle"
  /\ op' = "encrypt"
  /\ keySize' = size
  /\ key' = k
  /\ input' = in
  /\ origin' = NoOrigin
  /\ UNCHANGED <<history, field, process>>
  /\ Fresh
  /\ IF keyExpansionThrows(k, keyLengthOf(size))
     THEN /\ pc' = "thrown"
          /\ error' = keyError(size)
          /\ UNCHANGED <<keySchedule, paddedInput, promise, opened>>
     ELSE /\ keySchedule' = keyExpansion(k, 4, keyLengthOf(size), numberOfRoundsOf(size))
          /\ paddedInput' = padInput(in)
          /\ promise' = "pending"
          /\ opened' = TRUE
          /\ pc' = "open"
          /\ error' = "none"

\* the ciphertexts decrypt() is called with from the current state
DecryptInputs ==
  IF pc = "idle" THEN Messages
  ELSE IF Written THEN {Flatten(writes)}
  ELSE IF Returned("cipher") THEN {result, Message(16) \o result}
  ELSE {}

\* decrypt(keySize, key, input, output) up to the call of fs.open
CallDecrypt(size, k, in) ==
  /\ in \in DecryptInputs
  /\ pc # "idle" => size = keySize /\ k = key
  /\ op' = "decrypt"
  /\ keySize' = size
  /\ key' = k
  /\ input' = in
  /\ origin' = IF pc = "idle" THEN NoOrigin ELSE [op |-> op, input |-> input]
  /\ UNCHANGED <<history, field, process>>
  /\ Fresh
  /\ paddedInput' = << >>
  /\ IF keyExpansionThrows(k, keyLengthOf(size))
     THEN /\ pc' = "thrown"
          /\ error' = keyError(size)
          /\ keySchedule' = << >>
          /\ promise' = "none"
          /\ opened' = FALSE
     ELSE /\ keySchedule' = keyExpansion(k, 4, keyLengthOf(size), numberOfRoundsOf(size))
          /\ promise' = "pending"
          /\ opened' = TRUE
          /\ pc' = "open"
          /\ error' = "none"

\* the callback of fs.open
OpenCallback(err) ==
  /\ pc = "open"
  /\ IF err
     THEN /\ promise' = "rejected"
          /\ error' = "OpenFailed"
          /\ pc' = "done"
     ELSE /\ pc' = "then"
          /\ UNCHANGED <<promise, error>>
  /\ UNCHANGED <<call, keySchedule, paddedInput, i, engine, sink,
                 transformed, result, opened>>

(* ------------------------------------------------------------------ *)
(* The .then(fd) handlers: chunk loops                                  *)
(* ------------------------------------------------------------------ *)

\* fractionalChunks for numberOfChunks = Math.floor(length / 16)
fractionalChunksFloored(length) == (length \div 16) % 1 # 0

\* encryptLoopTest with the bound of the loop of decrypt()
encryptLoopTestShort(index, length) == 16 * index < length - 16

\* decryptLoopTest with the bound of the loop of encrypt()
decryptLoopTestLong(index, length) == 16 * index < length

\* numberOfChunks % 1 !== 0 for numberOfChunks = length / 16
fractionalChunks(length) == length % 16 # 0

\* i < numberOfChunks for numberOfChunks = length / 16
encryptLoopTest(index, length) == 16 * index < length

\* i < numberOfChunks - 1 for numberOfChunks = length / 16
decryptLoopTest(index, length) == 16 * index < length - 16

\* the handler of encrypt() up to its loop
EncryptThen ==
  /\ pc = "then"
  /\ op = "encrypt"
  /\ IF fractionalChunks(Len(paddedInput))
     THEN /\ promise' = "rejected"
          /\ error' = "NotMultipleOf16"
          /\ pc' = "done"
     ELSE /\ pc' = "loop"
          /\ UNCHANGED <<promise, error>>
  /\ UNCHANGED <<call, keySchedule, paddedInput, i, engine, sink,
                 transformed, result, opened>>

\* the handler of decrypt() up to its loop
DecryptThen ==
  /\ pc = "then"
  /\ op = "decrypt"
  /\ IF fractionalChunks(Len(input))
     THEN /\ promise' = "rejected"
          /\ error' = "NotMultipleOf16"
          /\ pc' = "done"
     ELSE /\ pc' = "loop"
          /\ UNCHANGED <<promise, error>>
  /\ UNCHANGED <<call, keySchedule, paddedInput, i, engine, sink,
                 transformed, result, opened>>

\* cipherEnter with the block just written XORed into the input of cipher
cipherEnterChained(slice) ==
  /\ inputSlice' = slice
  /\ state' = copyInputToState(
                 IF writes = << >> THEN slice
                 ELSE [k \in 1..16 |-> Xor(slice[k], writes[Len(writes)][k])])
  /\ round' = 0
  /\ step' = "start"
  /\ applied' = << >>

\* cipher(input, ...) up to copyInputToState
cipherEnter(slice) ==
  /\ inputSlice' = slice
  /\ state' = copyInputToState(slice)
  /\ round' = 0
  /\ step' = "start"
  /\ applied' = << >>

\* inverseCipher(input, ...) up to copyInputToState
inverseCipherEnter(slice) ==
  /\ inputSlice' = slice
  /\ state' = copyInputToState(slice)
  /\ round' = NumberOfRounds
  /\ step' = "start"
  /\ applied' = << >>

\* the block engine returned: its locals are gone
engineLeave ==
  /\ inputSlice' = << >>
  /\ state' = << >>
  /\ round' = 0
  /\ step' = "none"
  /\ applied' = << >>

\* one iteration of the loop of encrypt(), up to the call of cipher
EncryptChunk ==
  /\ pc = "loop"
  /\ op = "encrypt"
  /\ encryptLoopTest(i, Len(paddedInput))
  /\ LET slice == Slice(paddedInput, 16 * i, 16 * (i + 1))
     IN  IF cipherThrows(slice)
         THEN /\ promises' = Append(promises, "rejected")
              /\ i' = i + 1
              /\ UNCHANGED <<pc, engine, writes>>
         ELSE /\ cipherEnter(slice)
              /\ pc' = "block"
              /\ UNCHANGED <<i, sink>>
  /\ UNCHANGED <<call, keySchedule, paddedInput, promise, transformed,
                 result, error, opened>>

\* EncryptWrite handing the block to the stream ahead of the earlier ones
EncryptWriteFirst ==
  /\ pc = "block"
  /\ op = "encrypt"
  /\ step = "output"
  /\ LET output == copyStateToOutput(state)
     IN  /\ writes' = << output >> \o writes
         /\ transformed' = Append(transformed,
                                  [input |-> inputSlice, output |-> output])
  /\ promises' = Append(promises, "pending")
  /\ i' = i + 1
  /\ pc' = "loop"
  /\ engineLeave
  /\ UNCHANGED <<call, keySchedule, paddedInput, promise, result, error, opened>>

\* cipher returns to the loop of encrypt(), which hands the block to the stream
EncryptWrite ==
  /\ pc = "block"
  /\ op = "encrypt"
  /\ step = "output"
  /\ LET output == copyStateToOutput(state)
     IN  /\ writes' = Append(writes, output)
         /\ transformed' = Append(transformed,
                                  [input |-> inputSlice, output |-> output])
  /\ promises' = Append(promises, "pending")
  /\ i' = i + 1
  /\ pc' = "loop"
  /\ engineLeave
  /\ UNCHANGED <<call, keySchedule, paddedInput, promise, result, error, opened>>

\* the loop of encrypt() ends and the handler returns promises.reduce(...)
EncryptReturn ==
  /\ pc = "loop"
  /\ op = "encrypt"
  /\ ~ encryptLoopTest(i, Len(paddedInput))
  /\ pc' = "after"
  /\ UNCHANGED <<call, keySchedule, paddedInput, i, engine, sink, promise,
                 transformed, result, error, opened>>

\* one iteration of the loop of decrypt(), up to the call of inverseCipher
DecryptChunk ==
  /\ pc = "loop"
  /\ op = "decrypt"
  /\ decryptLoopTest(i, Len(input))
  /\ inverseCipherEnter(Slice(input, 16 * i, 16 * (i + 1)))
  /\ pc' = "block"
  /\ UNCHANGED <<call, keySchedule, paddedInput, i, sink, promise,
                 transformed, result, error, opened>>

\* inverseCipher returns to the loop of decrypt()
DecryptWrite ==
  /\ pc = "block"
  /\ op = "decrypt"
  /\ step = "output"
  /\ LET output == copyStateToOutput(state)
     IN  /\ writes' = Append(writes, output)
         /\ transformed' = Append(transformed,
                                  [input |-> inputSlice, output |-> output])
  /\ promises' = Append(promises, "pending")
  /\ i' = i + 1
  /\ pc' = "loop"
  /\ engineLeave
  /\ UNCHANGED <<call, keySchedule, paddedInput, promise, result, error, opened>>

\* after the loop of decrypt(): the last block, up to the call of inverseCipher
DecryptLast ==
  /\ pc = "loop"
  /\ op = "decrypt"
  /\ ~ decryptLoopTest(i, Len(input))
  /\ inverseCipherEnter(Slice(input, Len(input) - 16, Len(input)))
  /\ pc' = "last"
  /\ UNCHANGED <<call, keySchedule, paddedInput, i, sink, promise,
                 transformed, result, error, opened>>

\* inverseCipher returns for the last block: padding is removed, the rest is
\* written, and the handler returns promises.reduce(...)
DecryptLastWrite ==
  /\ pc = "last"
  /\ step = "output"
  /\ LET paddingOutput == copyStateToOutput(state)
         output == removePaddingFromInput(paddingOutput)
     IN  /\ transformed' = Append(transformed,
                                  [input |-> inputSlice, output |-> paddingOutput])
         /\ IF Len(output) <= 0
            THEN /\ promises' = Append(promises, "fulfilled")
                 /\ UNCHANGED writes
            ELSE /\ promises' = Append(promises, "pending")
                 /\ writes' = Append(writes, output)
  /\ pc' = "after"
  /\ engineLeave
  /\ UNCHANGED <<call, keySchedule, paddedInput, i, promise, result, error, opened>>

(* ------------------------------------------------------------------ *)
(* After the handler: write callbacks and the returned promise          *)
(* ------------------------------------------------------------------ *)

\* the stream invokes the callback of the oldest write still pending
WriteCallback(err) ==
  /\ pc = "after"
  /\ \E j \in 1..Len(promises) :
       /\ promises[j] = "pending"
       /\ \A k \in 1..(j - 1) : promises[k] # "pending"
       /\ promises' = [promises EXCEPT ![j] = IF err THEN "rejected" ELSE "fulfilled"]
  /\ UNCHANGED <<pc, call, keySchedule, paddedInput, i, engine, writes, promise,
                 transformed, result, error, opened>>

\* total.then(promise) passes the resolved total on: the chain is fulfilled
PromiseSettle ==
  /\ pc = "after"
  /\ promise = "pending"
  /\ promise' = "fulfilled"
  /\ UNCHANGED <<pc, call, keySchedule, paddedInput, i, engine, sink,
                 transformed, result, error, opened>>

(* ------------------------------------------------------------------ *)
(* A second encrypt() / decrypt() with the same key                     *)
(* ------------------------------------------------------------------ *)

\* the handler returned and every write callback reported success
Settled ==
  /\ pc = "after"
  /\ promise = "fulfilled"
  /\ \A j \in 1..Len(promises) : promises[j] = "fulfilled"

\* two buffers hold the same sixteen bytes at the same block position
SharesBlock(a, b) ==
  \E j \in 1..3 :
    /\ 16 * j <= Len(a)
    /\ 16 * j <= Len(b)
    /\ SubSeq(a, 16 * (j - 1) + 1, 16 * j) = SubSeq(b, 16 * (j - 1) + 1, 16 * j)

\* a 32-byte buffer whose second block is that of Message(32) behind another
\* first block
OtherFirstBlock == Block(0) \o SubSeq(Message(32), 17, 32)

\* the block transforms of the call that ends, as the next call finds them
Remembered ==
  history \cup
    { [op |-> op, keySize |-> keySize, key |-> key, index |-> j,
       input |-> transformed[j].input, output |-> transformed[j].output] :
      j \in 1..Len(transformed) }

\* the plaintexts of a second encrypt(): their padded form shares a block with
\* that of the plaintext just encrypted
EncryptAgainInputs ==
  IF op = "encrypt" /\ Settled /\ history = {}
  THEN { m \in {Message(24), OtherFirstBlock} :
           m # input /\ SharesBlock(padInput(m), paddedInput) }
  ELSE {}

\* encrypt(keySize, key, in, output) once more, up to the call of fs.open
EncryptAgain(in) ==
  /\ in \in EncryptAgainInputs
  /\ history' = Remembered
  /\ input' = in
  /\ origin' = NoOrigin
  /\ Fresh
  /\ keySchedule' = keyExpansion(key, 4, keyLengthOf(keySize), numberOfRoundsOf(keySize))
  /\ paddedInput' = padInput(in)
  /\ promise' = "pending"
  /\ pc' = "open"
  /\ UNCHANGED <<op, keySize, key, field, process, error, opened>>

\* the ciphertexts of a second decrypt(): they share a block with the
\* ciphertext just decrypted
DecryptAgainInputs ==
  IF op = "decrypt" /\ Settled /\ \A h \in history : h.op # "decrypt"
  THEN { m \in {Message(32), OtherFirstBlock} :
           m # input /\ SharesBlock(m, input) }
  ELSE {}

\* decrypt(keySize, key, in, output) once more, up to the call of fs.open
DecryptAgain(in) ==
  /\ in \in DecryptAgainInputs
  /\ history' = Remembered
  /\ input' = in
  /\ origin' = NoOrigin
  /\ Fresh
  /\ keySchedule' = keyExpansion(key, 4, keyLengthOf(keySize), numberOfRoundsOf(keySize))
  /\ promise' = "pending"
  /\ pc' = "open"
  /\ UNCHANGED <<op, keySize, key, field, process, paddedInput, error, opened>>

(* ------------------------------------------------------------------ *)
(* The steps of cipher() and inverseCipher()                            *)
(* ------------------------------------------------------------------ *)

InEngine == pc \in {"block", "last"}

engineFrame ==
  UNCHANGED <<pc, call, keySchedule, paddedInput, i, inputSlice, sink, promise,
              transformed, result, error, opened>>

\* AddRoundKey storing the XORed bytes of column 0 into the schedule word too
AddRoundKeyIntoSchedule ==
  /\ InEngine
  /\ step \in {"start", "addRoundKey"}
  /\ state' = addRoundKey(state, keySchedule, round)
  /\ applied' = Append(applied, [step |-> "addRoundKey", round |-> round])
  /\ keySchedule' =
       [keySchedule EXCEPT ![round * 4 + 1] =
          [row \in 1..4 |-> ToByte(addRoundKey(state, keySchedule, round)[row - 1][0])]]
  /\ IF Forward
     THEN IF round = NumberOfRounds
          THEN step' = "output" /\ round' = round
          ELSE step' = "subBytes" /\ round' = round + 1
     ELSE IF step = "start"
          THEN step' = "invShiftRows" /\ round' = round - 1
          ELSE IF round >= 1
               THEN step' = "invMixColumns" /\ round' = round
               ELSE step' = "output" /\ round' = round
  /\ UNCHANGED <<pc, call, paddedInput, i, inputSlice, sink, promise,
                 transformed, result, error, opened>>

\* addRoundKey(state, keySchedule, round, blockSize) and what follows it
AddRoundKey ==
  /\ InEngine
  /\ step \in {"start", "addRoundKey"}
  /\ state' = addRoundKey(state, keySchedule, round)
  /\ applied' = Append(applied, [step |-> "addRoundKey", round |-> round])
  /\ IF Forward
     THEN IF round = NumberOfRounds
          THEN step' = "output" /\ round' = round
          ELSE step' = "subBytes" /\ round' = round + 1
     ELSE IF step = "start"
          THEN step' = "invShiftRows" /\ round' = round - 1
          ELSE IF round >= 1
               THEN step' = "invMixColumns" /\ round' = round
               ELSE step' = "output" /\ round' = round
  /\ engineFrame

SubBytes ==
  /\ InEngine
  /\ step = "subBytes"
  /\ state' = subBytes(state)
  /\ applied' = Append(applied, [step |-> "subBytes", round |-> round])
  /\ step' = "shiftRows"
  /\ UNCHANGED round
  /\ engineFrame

\* ShiftRows followed by MixColumns in the last round too
ShiftRowsAlwaysMixes ==
  /\ InEngine
  /\ step = "shiftRows"
  /\ state' = shiftRows(state)
  /\ applied' = Append(applied, [step |-> "shiftRows", round |-> round])
  /\ step' = "mixColumns"
  /\ UNCHANGED round
  /\ engineFrame

ShiftRows ==
  /\ InEngine
  /\ step = "shiftRows"
  /\ state' = shiftRows(state)
  /\ applied' = Append(applied, [step |-> "shiftRows", round |-> round])
  /\ step' = IF round < NumberOfRounds THEN "mixColumns" ELSE "addRoundKey"
  /\ UNCHANGED round
  /\ engineFrame

MixColumns ==
  /\ InEngine
  /\ step = "mixColumns"
  /\ state' = mixColumns(state)
  /\ applied' = Append(applied, [step |-> "mixColumns", round |-> round])
  /\ step' = "addRoundKey"
  /\ UNCHANGED round
  /\ engineFrame

InvShiftRows ==
  /\ InEngine
  /\ step = "invShiftRows"
  /\ state' = invShiftRows(state)
  /\ applied' = Append(applied, [step |-> "invShiftRows", round |-> round])
  /\ step' = "invSubBytes"
  /\ UNCHANGED round
  /\ engineFrame

\* InvSubBytes followed at once by InvMixColumns in the rounds above 0
InvSubBytesThenMixes ==
  /\ InEngine
  /\ step = "invSubBytes"
  /\ state' = invSubBytes(state)
  /\ applied' = Append(applied, [step |-> "invSubBytes", round |-> round])
  /\ step' = IF round >= 1 THEN "invMixColumns" ELSE "addRoundKey"
  /\ UNCHANGED round
  /\ engineFrame

InvSubBytes ==
  /\ InEngine
  /\ step = "invSubBytes"
  /\ state' = invSubBytes(state)
  /\ applied' = Append(applied, [step |-> "invSubBytes", round |-> round])
  /\ step' = "addRoundKey"
  /\ UNCHANGED round
  /\ engineFrame

InvMixColumns ==
  /\ InEngine
  /\ step = "invMixColumns"
  /\ state' = invMixColumns(state)
  /\ applied' = Append(applied, [step |-> "invMixColumns", round |-> round])
  /\ step' = "invShiftRows"
  /\ round' = round - 1
  /\ engineFrame

(* ------------------------------------------------------------------ *)
(* Direct calls of the exported keyExpansion, cipher and inverseCipher  *)
(* ------------------------------------------------------------------ *)

\* keyExpansion(key, 4, keyLength, numberOfRounds)
CallKeyExpansion(size, k) ==
  /\ pc = "idle"
  /\ op' = "keyExpansion"
  /\ keySize' = size
  /\ key' = k
  /\ Fresh
  /\ IF keyExpansionThrows(k, keyLengthOf(size))
     THEN /\ pc' = "thrown"
          /\ error' = keyError(size)
          /\ UNCHANGED keySchedule
     ELSE /\ keySchedule' = keyExpansion(k, 4, keyLengthOf(size), numberOfRoundsOf(size))
          /\ pc' = "returned"
          /\ UNCHANGED error
  /\ UNCHANGED <<input, origin, history, field, process, paddedInput, promise,
                 opened>>

\* cipher(input, keySchedule, numberOfRounds) up to copyInputToState
CallCipher(in) ==
  /\ Returned("keyExpansion")
  /\ op' = "cipher"
  /\ input' = in
  /\ origin' = NoOrigin
  /\ IF cipherThrows(in)
     THEN /\ pc' = "thrown"
          /\ error' = "InvalidBlockSize"
          /\ UNCHANGED engine
     ELSE /\ cipherEnter(in)
          /\ pc' = "block"
          /\ UNCHANGED error
  /\ UNCHANGED <<keySize, key, history, field, process, keySchedule, paddedInput, i, sink,
                 promise, transformed, result, opened>>

\* the buffers inverseCipher() is called with from the current state
InverseInputs ==
  IF Returned("keyExpansion") THEN BlockInputs
  ELSE IF Returned("cipher") THEN {result}
  ELSE {}

\* inverseCipher(input, keySchedule, numberOfRounds) up to copyInputToState
CallInverseCipher(in) ==
  /\ in \in InverseInputs
  /\ op' = "inverseCipher"
  /\ input' = in
  /\ origin' = IF Returned("cipher") THEN [op |-> op, input |-> input] ELSE NoOrigin
  /\ inverseCipherEnter(in)
  /\ pc' = "block"
  /\ transformed' = << >>
  /\ result' = << >>
  /\ UNCHANGED <<keySize, key, history, field, process, keySchedule, paddedInput, i, sink,
                 promise, error, opened>>

\* a direct cipher() or inverseCipher() returns copyStateToOutput(state)
EngineReturn ==
  /\ pc = "block"
  /\ op \in {"cipher", "inverseCipher"}
  /\ step = "output"
  /\ LET output == copyStateToOutput(state)
     IN  /\ result' = output
         /\ transformed' = Append(transformed,
                                  [input |-> inputSlice, output |-> output])
  /\ pc' = "returned"
  /\ engineLeave
  /\ UNCHANGED <<call, keySchedule, paddedInput, i, sink, promise, error, opened>>

(* ------------------------------------------------------------------ *)
(* Specification                                                        *)
(* ------------------------------------------------------------------ *)

Next ==
  \/ \E size \in KeySizes, len \in KeyLengths, in \in Messages :
       CallEncrypt(size, Key(len), in)
  \/ \E size \in KeySizes, len \in KeyLengths, in \in DecryptInputs :
       CallDecrypt(size, Key(len), in)
  \/ \E err \in BOOLEAN : OpenCallback(err)
  \/ EncryptThen
  \/ DecryptThen
  \/ EncryptChunk
  \/ EncryptWrite
  \/ EncryptReturn
  \/ DecryptChunk
  \/ DecryptWrite
  \/ DecryptLast
  \/ DecryptLastWrite
  \/ \E err \in BOOLEAN : WriteCallback(err)
  \/ PromiseSettle
  \/ \E in \in EncryptAgainInputs : EncryptAgain(in)
  \/ \E in \in DecryptAgainInputs : DecryptAgain(in)
  \/ AddRoundKey
  \/ SubBytes
  \/ ShiftRows
  \/ MixColumns
  \/ InvShiftRows
  \/ InvSubBytes
  \/ InvMixColumns
  \/ \E size \in KeySizes, k \in ExpansionKeys : CallKeyExpansion(size, k)
  \/ \E in \in BlockInputs : CallCipher(in)
  \/ \E in \in InverseInputs : CallInverseCipher(in)
  \/ EngineReturn

Spec == Init /\ [][Next]_vars

(* ------------------------------------------------------------------ *)
(* Direct calls of the exported multiply                                *)
(* ------------------------------------------------------------------ *)

Bytes == 0..255

\* before a call of multiply(): any two bytes as its arguments
InitMultiply ==
  /\ NoCall
  /\ NoProcess
  /\ multiplicands \in Bytes \X Bytes
  /\ product = 0
  /\ currentIteration = 0

\* multiply(a, b)
CallMultiply ==
  /\ pc = "idle"
  /\ Len(multiplicands) = 2
  /\ op' = "multiply"
  /\ product' = multiply(multiplicands[1], multiplicands[2])
  /\ currentIteration' = multiplyCount(multiplicands[1], multiplicands[2], 0)
  /\ pc' = "returned"
  /\ UNCHANGED <<multiplicands, process, keySize, key, input, origin, history, keySchedule,
                 paddedInput, i, engine, sink, promise, transformed, result,
                 error, opened>>

NextMultiply == CallMultiply

SpecMultiply == InitMultiply /\ [][NextMultiply]_vars

(* ------------------------------------------------------------------ *)
(* Direct calls of the exported mixColumns and invMixColumns            *)
(* ------------------------------------------------------------------ *)

\* the buffer the unit test of mixColumns() loads its state from
mixColumnsInput ==
  << 99, 83, 224, 140, 9, 96, 225, 4, 205, 112, 183, 81, 186, 202, 208, 231 >>

\* the buffer the unit test of mixColumns() expects
mixColumnsOutput ==
  << 95, 114, 100, 21, 87, 245, 188, 146, 247, 190, 59, 41, 29, 185, 249, 26 >>

\* 16-byte buffers a state is loaded from: 00 11 .. ff with any byte at any
\* one position, and the buffer of the unit test
StateBuffers ==
  { [k \in 1..16 |-> IF k = position THEN byte ELSE (17 * (k - 1)) % 256] :
      position \in 1..16, byte \in Bytes } \cup {mixColumnsInput}

\* mixColumns(state) on a state loaded from a buffer, as the unit test does
CallMixColumns(in) ==
  /\ pc = "idle"
  /\ op' = "mixColumns"
  /\ input' = in
  /\ state' = mixColumns(copyInputToState(in))
  /\ pc' = "returned"
  /\ UNCHANGED <<keySize, key, origin, history, field, process, keySchedule,
                 paddedInput, i, inputSlice, round, step, applied, sink,
                 promise, transformed, result, error, opened>>

\* invMixColumns(state) on the state mixColumns left
CallInvMixColumns ==
  /\ Returned("mixColumns")
  /\ op' = "invMixColumns"
  /\ state' = invMixColumns(state)
  /\ UNCHANGED <<pc, keySize, key, input, origin, history, field, process,
                 keySchedule, paddedInput, i, inputSlice, round, step, applied,
                 sink, promise, transformed, result, error, opened>>

NextColumns ==
  \/ \E in \in StateBuffers : CallMixColumns(in)
  \/ CallInvMixColumns

SpecColumns == Init /\ [][NextColumns]_vars

(* ------------------------------------------------------------------ *)
(* The command line program                                             *)
(* ------------------------------------------------------------------ *)

\* the flag combinations of a command line
Flags ==
  { [h |-> h, help |-> help, v |-> v, version |-> version] :
      h \in BOOLEAN, help \in BOOLEAN, v \in BOOLEAN, version \in BOOLEAN }

\* command lines as minimist parses them: an option that is absent is undefined
CommandLines ==
  { [flags |-> flags, keysize |-> keysize, mode |-> mode, keyfile |-> keyfile,
     inputfile |-> inputfile, outputfile |-> outputfile,
     outputfilename |-> outputfilename] :
      flags \in {f \in Flags : Cardinality({x \in DOMAIN f : f[x]}) <= 1},
      keysize \in {Undefined, 128, 192},
      mode \in {"undefined", "ENCRYPT", "decrypt", "sign"},
      keyfile \in {"undefined", "key.bin"},
      inputfile \in {"undefined", "input.bin"},
      outputfile \in {"undefined", "result.bin"},
      outputfilename \in {"undefined", "other.bin"} }

\* environments: a variable that is not set is undefined
Environments ==
  { [AES_KEYSIZE |-> keysize, AES_MODE |-> mode, AES_KEY_FILE |-> "undefined",
     AES_INPUT_FILE |-> "undefined", AES_OUTPUT_FILE |-> outputfile] :
      keysize \in {Undefined, 256},
      mode \in {"undefined", "encrypt"},
      outputfile \in {"undefined", "env.bin"} }

\* a || b on strings that are undefined or truthy
Or(a, b) == IF a = "undefined" THEN b ELSE a

\* a || b on numbers that are undefined or truthy
OrNumber(a, b) == IF a = Undefined THEN b ELSE a

\* getKeysize(arg): null is undefined here
getKeysize(arg) == IF arg \in {128, 256} THEN arg ELSE Undefined

\* String.prototype.toLowerCase on the modes of CommandLines
toLowerCase(arg) == IF arg = "ENCRYPT" THEN "encrypt" ELSE arg

\* getMode(arg): null is "undefined" here
getMode(arg) ==
  IF arg = "undefined" THEN "undefined"
  ELSE IF toLowerCase(arg) \in {"encrypt", "decrypt"} THEN toLowerCase(arg)
  ELSE "undefined"

\* the content of the key file and of the input file
FileData(filename) == IF filename = "key.bin" THEN Key(16) ELSE Message(16)

\* the error encrypt() throws before it opens the output, if any
encryptThrows(size, k, in) ==
  IF in = Undefined THEN "InputUndefined"
  ELSE IF keyExpansionThrows(k, keyLengthOf(size)) THEN keyError(size)
  ELSE "none"

\* the error decrypt() throws before it opens the output, if any
decryptThrows(size, k) ==
  IF keyExpansionThrows(k, keyLengthOf(size)) THEN keyError(size) ELSE "none"

InitCli ==
  /\ NoCall
  /\ NoMultiply
  /\ args \in CommandLines
  /\ env \in Environments
  /\ cliPc = "start"
  /\ outputFilename = "undefined"
  /\ calledWith = << >>
  /\ printed = "nothing"

\* start(args) up to its return
start ==
  /\ cliPc = "start"
  /\ LET keysize == getKeysize(OrNumber(env.AES_KEYSIZE, args.keysize))
         mode == getMode(Or(env.AES_MODE, args.mode))
     IN  IF args.flags.h \/ args.flags.help
         THEN /\ printed' = "usage"
              /\ cliPc' = "exit"
              /\ UNCHANGED outputFilename
         ELSE IF args.flags.v \/ args.flags.version
         THEN /\ printed' = "version"
              /\ cliPc' = "exit"
              /\ UNCHANGED outputFilename
         ELSE IF keysize = Undefined \/ mode = "undefined"
         THEN /\ printed' = "usage"
              /\ cliPc' = "exit"
              /\ UNCHANGED outputFilename
         ELSE /\ outputFilename' =
                   Or(env.AES_OUTPUT_FILE, Or(args.outputfilename, "output.txt"))
              /\ IF Or(env.AES_KEY_FILE, args.keyfile) = "undefined"
                    \/ Or(env.AES_INPUT_FILE, args.inputfile) = "undefined"
                 THEN /\ printed' = "InvalidFilename"
                      /\ cliPc' = "crashed"
                 ELSE /\ cliPc' = "reading"
                      /\ UNCHANGED printed
  /\ UNCHANGED <<args, env, calledWith>>
  /\ UNCHANGED <<pc, op, keySize, key, input, origin, history, field, keySchedule,
                 paddedInput, i, engine, sink, promise, transformed, result,
                 error, opened>>

\* the callbacks of the two fs.readFile calls: Promise.all settles
readFile(keyErr, inputErr) ==
  /\ cliPc = "reading"
  /\ cliPc' = IF keyErr \/ inputErr THEN "rejected" ELSE "resolved"
  /\ UNCHANGED <<args, env, outputFilename, calledWith, printed>>
  /\ UNCHANGED <<pc, op, keySize, key, input, origin, history, field, keySchedule,
                 paddedInput, i, engine, sink, promise, transformed, result,
                 error, opened>>

\* the handler of .then: its first parameter is the array Promise.all resolved
\* with and its second parameter is undefined
thenHandler ==
  /\ cliPc = "resolved"
  /\ LET keysize == getKeysize(OrNumber(env.AES_KEYSIZE, args.keysize))
         mode == getMode(Or(env.AES_MODE, args.mode))
         k == << FileData(Or(env.AES_KEY_FILE, args.keyfile)),
                 FileData(Or(env.AES_INPUT_FILE, args.inputfile)) >>
         in == Undefined
         thrown == IF mode = "encrypt" THEN encryptThrows(keysize, k, in)
                   ELSE decryptThrows(keysize, k)
     IN  /\ calledWith' = [mode |-> mode, keySize |-> keysize, key |-> k,
                           input |-> in, output |-> outputFilename]
         /\ op' = mode
         /\ keySize' = keysize
         /\ key' = k
         /\ input' = in
         /\ error' = thrown
         /\ IF thrown # "none"
            THEN /\ pc' = "thrown"
                 /\ cliPc' = "rejected"
                 /\ UNCHANGED <<keySchedule, paddedInput, promise, opened>>
            ELSE /\ keySchedule' = keyExpansion(k, 4, keyLengthOf(keysize),
                                                numberOfRoundsOf(keysize))
                 /\ paddedInput' = IF mode = "encrypt" THEN padInput(in) ELSE << >>
                 /\ promise' = "pending"
                 /\ opened' = TRUE
                 /\ pc' = "open"
                 /\ cliPc' = "called"
  /\ UNCHANGED <<args, env, outputFilename, printed>>
  /\ UNCHANGED <<origin, history, field, i, engine, sink, transformed, result>>

\* the handler of .catch prints the stack of the error
catchHandler ==
  /\ cliPc = "rejected"
  /\ printed' = "error"
  /\ cliPc' = "exit"
  /\ UNCHANGED <<args, env, outputFilename, calledWith>>
  /\ UNCHANGED <<pc, op, keySize, key, input, origin, history, field, keySchedule,
                 paddedInput, i, engine, sink, promise, transformed, result,
                 error, opened>>

NextCli ==
  \/ start
  \/ \E keyErr \in BOOLEAN, inputErr \in BOOLEAN : readFile(keyErr, inputErr)
  \/ thenHandler
  \/ catchHandler

SpecCli == InitCli /\ [][NextCli]_vars

(* ------------------------------------------------------------------ *)
(* Properties                                                           *)
(* ------------------------------------------------------------------ *)

\* a decrypt() call on the bytes a finished encrypt() wrote, handler returned
DecryptedWritten == op = "decrypt" /\ origin.op = "encrypt" /\ pc = "after"

\* C1: message round trip. When decrypt() is given the bytes encrypt() wrote
\* for a message under the same key, the bytes decrypt() writes are exactly
\* that message: same length, same bytes.
RoundTripMessage ==
  DecryptedWritten => Flatten(writes) = origin.input

\* a round trip of a message of two full blocks under a 256-bit key
RoundTripMessageWitness ==
  /\ DecryptedWritten
  /\ keySize = 256
  /\ Len(origin.input) = 32
  /\ Len(writes) = 2

\* C2: block round trip. inverseCipher applied to the block cipher returned,
\* under the same schedule and number of rounds, returns the block cipher
\* was given, for 128-bit and 256-bit keys.
RoundTripBlock ==
  (Returned("inverseCipher") /\ origin.op = "cipher") => result = origin.input

\* a block round trip under a 256-bit key (14 rounds)
RoundTripBlockWitness ==
  /\ Returned("inverseCipher")
  /\ origin.op = "cipher"
  /\ keySize = 256
  /\ Len(result) = 16

\* the FIPS-197 example vectors
Ciphertext128 ==
  << 105, 196, 224, 216, 106, 123, 4, 48, 216, 205, 183, 128, 112, 180, 197, 90 >>

Ciphertext256 ==
  << 142, 162, 183, 202, 81, 103, 69, 191, 234, 252, 73, 144, 75, 73, 96, 137 >>

\* C3: known-answer vectors. cipher(00112233445566778899aabbccddeeff) returns
\* 69c4e0d86a7b0430d8cdb78070b4c55a under the schedule of key 000102..0f with
\* 10 rounds and 8ea2b7ca516745bfeafc49904b496089 under the schedule of key
\* 000102..1f with 14 rounds.
KnownAnswerVectors ==
  (Returned("cipher") /\ input = Message(16)) =>
     /\ (keySize = 128 /\ key = Key(16)) => result = Ciphertext128
     /\ (keySize = 256 /\ key = Key(32)) => result = Ciphertext256

\* the 256-bit vector has been computed
KnownAnswerVectorsWitness ==
  /\ Returned("cipher")
  /\ input = Message(16)
  /\ key = Key(32)
  /\ result = Ciphertext256

\* the padded message of the data model: the message, zeros, the pad length
PaddedMessage(message) ==
  LET L == 16 - (Len(message) % 16)
  IN  message \o [k \in 1..L |-> IF k = L THEN L ELSE 0]

\* the handler of an encrypt() call has returned
Encrypted == op = "encrypt" /\ pc = "after"

\* C4: the bytes encrypt() writes are the concatenation, for block 0..n-1
\* with n = floor(len/16) + 1, of the cipher output for block i of the padded
\* plaintext under the one schedule of the key; the total length is 16 * n.
EncryptWritesBlocks ==
  Encrypted =>
    LET n == (Len(input) \div 16) + 1
        padded == PaddedMessage(input)
    IN  /\ Len(writes) = n
        /\ Len(transformed) = n
        /\ keySchedule = keyExpansion(key, 4, keyLengthOf(keySize),
                                      numberOfRoundsOf(keySize))
        /\ \A j \in 1..n :
             /\ transformed[j].input = SubSeq(padded, 16 * (j - 1) + 1, 16 * j)
             /\ writes[j] = transformed[j].output
             /\ Len(writes[j]) = 16
        /\ Len(Flatten(writes)) = 16 * n

\* a 32-byte plaintext was encrypted into three blocks
EncryptWritesBlocksWitness ==
  /\ Encrypted
  /\ Len(input) = 32
  /\ Len(writes) = 3

\* encrypt() has padded its input
Padded == op = "encrypt" /\ pc \notin {"idle", "thrown"}

\* C5: padInput appends exactly L = 16 - (len mod 16) bytes, 1 <= L <= 16,
\* all 0 except the last, which is L; the message is kept as the prefix and
\* the padded length is a multiple of 16.
PadInputAppends ==
  Padded =>
    LET len == Len(input)
        L == Len(paddedInput) - len
    IN  /\ L = 16 - (len % 16)
        /\ L >= 1
        /\ L <= 16
        /\ SubSeq(paddedInput, 1, len) = input
        /\ \A k \in 1..(L - 1) : paddedInput[len + k] = 0
        /\ paddedInput[len + L] = L
        /\ Len(paddedInput) % 16 = 0

\* a message of exactly one block got a full block of padding
PadInputAppendsWitness ==
  /\ Padded
  /\ Len(input) = 16
  /\ Len(paddedInput) = 32
  /\ paddedInput[32] = 16

\* the handler of a decrypt() call has returned, on a ciphertext of n >= 1 blocks
Decrypted == op = "decrypt" /\ pc = "after" /\ Len(input) >= 16

\* the inverseCipher result of the last block of the ciphertext
LastOutput == transformed[Len(transformed)].output

\* the final byte of the inverseCipher result of the last block
PadLength == LastOutput[16]

\* blocks 0..n-2 of the ciphertext are inverse-transformed and written whole
WholeBlocksWritten ==
  LET n == Len(input) \div 16
  IN  /\ Len(transformed) = n
      /\ \A j \in 1..n :
           transformed[j].input = SubSeq(input, 16 * (j - 1) + 1, 16 * j)
      /\ \A j \in 1..(n - 1) :
           /\ j <= Len(writes)
           /\ writes[j] = transformed[j].output
           /\ Len(writes[j]) = 16

\* the writes of the last block when `kept` bytes of it are kept
LastBlockWritten(kept) ==
  LET n == Len(input) \div 16
  IN  IF kept = 0
      THEN Len(writes) = n - 1
      ELSE /\ Len(writes) = n
           /\ writes[n] = SubSeq(LastOutput, 1, kept)

\* C6 as stated: blocks 0..n-2 are written whole, and of the last block only
\* the first 16 - L bytes, L its final byte; no write when 16 - L is 0.
DecryptDropsPadLength ==
  Decrypted =>
    /\ WholeBlocksWritten
    /\ LastBlockWritten(IF PadLength <= 16 THEN 16 - PadLength ELSE 0)

\* the bytes Buffer.slice(0, 16 - L) keeps of a 16-byte buffer: a negative
\* end counts from the end of the buffer
KeptOfLast(L) ==
  IF L <= 16 THEN 16 - L ELSE IF L < 32 THEN 32 - L ELSE 0

\* C6, amended: blocks 0..n-2 are written whole; of the last block the first
\* 16 - L bytes are written when L <= 16 (no write when L = 16), the first
\* 32 - L bytes when 17 <= L <= 31, and nothing when L >= 32.
DecryptSlicesLastBlock ==
  Decrypted =>
    /\ WholeBlocksWritten
    /\ LastBlockWritten(KeptOfLast(PadLength))

\* a two-block ciphertext whose last block ends in 17 after inverseCipher
DecryptSlicesLastBlockWitness ==
  /\ Decrypted
  /\ Len(input) = 32
  /\ PadLength = 17
  /\ Len(writes) = 2
  /\ Len(writes[2]) = 15

\* C7: decrypt() on a ciphertext whose length is not a multiple of 16 fails:
\* the promise is rejected with the alignment error once the handler has run,
\* it is never fulfilled, no block is transformed and no byte is written.
MisalignedRejected ==
  (op = "decrypt" /\ Len(input) % 16 # 0) =>
    /\ transformed = << >>
    /\ writes = << >>
    /\ state = << >>
    /\ promise # "fulfilled"
    /\ pc \in {"thrown", "open", "then", "done"}
    /\ (pc = "done" /\ error # "OpenFailed") =>
         (promise = "rejected" /\ error = "NotMultipleOf16")

\* a 17-byte ciphertext was rejected by the handler
MisalignedRejectedWitness ==
  /\ op = "decrypt"
  /\ Len(input) = 17
  /\ pc = "done"
  /\ promise = "rejected"
  /\ error = "NotMultipleOf16"

\* the last block ends, after inverseCipher, in a byte that is no pad length
BadPadding == Decrypted /\ (PadLength = 0 \/ PadLength > 16)

\* C8 as stated: a final byte of 0 or more than 16 makes decrypt() fail with
\* InvalidPadding, with nothing written for the final block.
InvalidPaddingRejected ==
  BadPadding =>
    /\ promise = "rejected"
    /\ error = "InvalidPadding"
    /\ Len(writes) = (Len(input) \div 16) - 1

\* C8, amended: decrypt() has no padding failure. With a final byte L of 0 or
\* more than 16 the call is not rejected: for L = 0 the last block is written
\* in full, for 17 <= L <= 31 its first 32 - L bytes are written, and for
\* L >= 32 nothing is written for it.
BadPaddingPassesThrough ==
  BadPadding =>
    LET n == Len(input) \div 16
    IN  /\ promise \in {"pending", "fulfilled"}
        /\ error = "none"
        /\ PadLength = 0 => (Len(writes) = n /\ writes[n] = LastOutput)
        /\ (PadLength > 16 /\ PadLength < 32) =>
             (Len(writes) = n /\ Len(writes[n]) = 32 - PadLength
                /\ writes[n] = SubSeq(LastOutput, 1, Len(writes[n])))
        /\ PadLength >= 32 => Len(writes) = n - 1

\* a single block ending in 31 was truncated to one byte and the call fulfilled
BadPaddingPassesThroughWitness ==
  /\ BadPadding
  /\ PadLength = 31
  /\ Len(writes) = 1
  /\ Len(writes[1]) = 1
  /\ promise = "fulfilled"

\* C9: keyExpansion throws a key-length error and returns no schedule when
\* the key is not 4 * keyLength bytes long, so encrypt() and decrypt() fail
\* before the destination is opened and before any block is transformed or
\* written.
KeyLengthChecked ==
  (op # "none" /\ Len(key) # 4 * keyLengthOf(keySize)) =>
    /\ pc = "thrown"
    /\ error = keyError(keySize)
    /\ keySchedule = << >>
    /\ ~ opened
    /\ promise = "none"
    /\ state = << >>
    /\ transformed = << >>
    /\ writes = << >>

\* decrypt() with keySize 256 and a 16-byte key has thrown
KeyLengthCheckedWitness ==
  /\ op = "decrypt"
  /\ keySize = 256
  /\ Len(key) = 16
  /\ pc = "thrown"
  /\ error = "InvalidKey256"

\* C10: cipher() on an input that is not exactly 16 bytes long throws a
\* block-size error before any round step is applied and returns no output.
CipherChecksBlockSize ==
  (op = "cipher" /\ Len(input) # 16) =>
    /\ pc = "thrown"
    /\ error = "InvalidBlockSize"
    /\ state = << >>
    /\ step = "none"
    /\ result = << >>
    /\ transformed = << >>

\* cipher() has thrown on a 17-byte input
CipherChecksBlockSizeWitness ==
  /\ op = "cipher"
  /\ Len(input) = 17
  /\ pc = "thrown"
  /\ error = "InvalidBlockSize"

\* C11 as stated: inverseCipher() on an input that is not exactly 16 bytes long
\* fails with a block-size error and returns no output.
InverseCipherChecksBlockSize ==
  (op = "inverseCipher" /\ Len(input) # 16) =>
    /\ pc = "thrown"
    /\ error = "InvalidBlockSize"
    /\ state = << >>
    /\ result = << >>

\* inverseCipher() returned sixteen bytes for a 15-byte input: the bytes it
\* read past the end of the input entered the state as undefined
InverseCipherReturnsOnShortInput ==
  /\ Returned("inverseCipher")
  /\ Len(input) = 15
  /\ error = "none"
  /\ Len(result) = 16
  /\ transformed = << [input |-> input, output |-> result] >>

\* the stream reported an error for write j of the running encrypt() / decrypt()
WriteFailed(j) ==
  /\ op \in {"encrypt", "decrypt"}
  /\ pc = "after"
  /\ j \in 1..Len(promises)
  /\ promises[j] = "rejected"

\* C12 as stated: when the stream reports an error for the write of block j,
\* no block after j is transformed or written, and the promise returned to the
\* caller is not fulfilled: it ends rejected.
WriteErrorAborts ==
  \A j \in 1..Len(promises) :
    WriteFailed(j) =>
      /\ Len(transformed) <= j
      /\ Len(writes) <= j
      /\ promise # "fulfilled"

\* the first of three block writes of encrypt() failed, all three blocks were
\* transformed and handed to the stream, and the returned promise is fulfilled
WriteErrorIgnored ==
  /\ op = "encrypt"
  /\ WriteFailed(1)
  /\ Len(transformed) = 3
  /\ Len(writes) = 3
  /\ promise = "fulfilled"
  /\ error = "none"

\* C13 as stated: the promise returned by encrypt() / decrypt() is fulfilled
\* only after the stream has invoked the callback of every block write.
FulfilledAfterEveryCallback ==
  (op \in {"encrypt", "decrypt"} /\ promise = "fulfilled") =>
    \A j \in 1..Len(promises) : promises[j] # "pending"

\* the promise of decrypt() is fulfilled and no callback of its two writes has
\* been invoked yet
FulfilledWhileWritesPending ==
  /\ op = "decrypt"
  /\ promise = "fulfilled"
  /\ Len(writes) = 2
  /\ \A j \in 1..Len(promises) : promises[j] = "pending"

\* the buffer whose blocks the running encrypt() / decrypt() transforms
Source == IF op = "encrypt" THEN paddedInput ELSE input

\* bytes 16 * (j - 1) .. 16 * j - 1 of a buffer
BlockOf(buf, j) == [k \in 1..16 |-> buf[16 * (j - 1) + k]]

\* the j-th buffer handed to the stream is the output of the j-th block of the
\* source (for the last block of decrypt(): the bytes of it that were kept)
WrittenInPlace(j) ==
  /\ j <= Len(transformed)
  /\ 16 * j <= Len(Source) => transformed[j].input = BlockOf(Source, j)
  /\ \/ writes[j] = transformed[j].output
     \/ /\ op = "decrypt"
        /\ pc = "after"
        /\ j = Len(transformed)
        /\ writes[j] = SubSeq(transformed[j].output, 1, Len(writes[j]))

\* a step hands at most one buffer to the stream: that of block i, behind all
\* the buffers of the blocks before it
WriteNext ==
  \/ writes' = writes
  \/ writes' = << >>
  \/ /\ Len(writes) = i
     /\ Len(writes') = i + 1
     /\ SubSeq(writes', 1, i) = writes

\* C14: encrypt() and decrypt() hand the block outputs to the stream in the
\* order of the blocks: the write for block j is issued before the write for
\* block j + 1, and no write callback, whenever it comes, changes that.
WritesInBlockOrder ==
  /\ [](op \in {"encrypt", "decrypt"} =>
          \A j \in 1..Len(writes) : WrittenInPlace(j))
  /\ [][WriteNext]_vars

\* encrypt() has handed three blocks to the stream and the callback of the
\* first write reported an error while the later writes are outstanding
WritesInBlockOrderWitness ==
  /\ op = "encrypt"
  /\ pc = "after"
  /\ Len(writes) = 3
  /\ promises = << "rejected", "pending", "pending" >>
  /\ \A j \in 1..3 : writes[j] = transformed[j].output

\* a block transform of an earlier call with the direction and the key of the
\* running call
SameKey(h) == h.op = op /\ h.keySize = keySize /\ h.key = key

\* C15: no inter-block dependency. Under one key the output of a block of
\* encrypt() (and of decrypt(), before padding removal) is determined by the
\* sixteen bytes of that block alone: whenever a block of the running call
\* equals a block of an earlier call with the same key, so do their outputs,
\* whatever the other blocks of the two inputs are.
NoInterBlockDependency ==
  \A h \in history :
    \A j \in 1..Len(transformed) :
      (SameKey(h) /\ h.input = transformed[j].input) =>
        h.output = transformed[j].output

\* a second encrypt() has written a second block equal to the second block of
\* the first call, behind a first block that differs from the first call's
NoInterBlockDependencyWitness ==
  /\ op = "encrypt"
  /\ pc = "after"
  /\ Len(writes) = 3
  /\ \E h1, h2 \in history :
       /\ SameKey(h1) /\ h1.index = 1
       /\ h1.input # transformed[1].input
       /\ h1.output # writes[1]
       /\ SameKey(h2) /\ h2.index = 2
       /\ h2.input = transformed[2].input
       /\ h2.output = writes[2]

\* the word T(word[i - 1]) of the recurrence: rotated left one byte, passed
\* through the S-box and its first byte XORed with the round constant when
\* i mod Nk = 0; passed through the S-box only when Nk > 6 and i mod Nk = 4;
\* unchanged otherwise
TransformedWord(w, index, Nk) ==
  IF index % Nk = 0
  THEN << Xor(sBox[w[2] + 1], roundConstant[(index \div Nk) + 1][1]),
          sBox[w[3] + 1], sBox[w[4] + 1], sBox[w[1] + 1] >>
  ELSE IF Nk > 6 /\ index % Nk = 4
  THEN << sBox[w[1] + 1], sBox[w[2] + 1], sBox[w[3] + 1], sBox[w[4] + 1] >>
  ELSE w

\* C16: keyExpansion(key, 4, Nk, Nr) returns 4 * (Nr + 1) four-byte words;
\* words 0 .. Nk - 1 are the key bytes 4i .. 4i + 3, and every later word i is
\* word[i - Nk] XOR T(word[i - 1]).
KeyScheduleRecurrence ==
  Returned("keyExpansion") =>
    LET Nk == keyLengthOf(keySize)
        Nr == numberOfRoundsOf(keySize)
    IN  /\ Len(keySchedule) = 4 * (Nr + 1)
        /\ \A w \in 0..(Nk - 1) :
             keySchedule[w + 1] =
               << key[4 * w + 1], key[4 * w + 2], key[4 * w + 3], key[4 * w + 4] >>
        /\ \A w \in Nk..(4 * (Nr + 1) - 1) :
             keySchedule[w + 1] =
               [t \in 1..4 |->
                  Xor(keySchedule[w - Nk + 1][t],
                      TransformedWord(keySchedule[w], w, Nk)[t])]

\* keyExpansion returned the 60 words of a 256-bit key
KeyScheduleRecurrenceWitness ==
  /\ Returned("keyExpansion")
  /\ keySize = 256
  /\ key = cipherKey256Bit
  /\ Len(keySchedule) = 60

\* the expansions published in FIPS-197, as the tests list them
expandedKey128Bit ==
  << <<43, 126, 21, 22>>, <<40, 174, 210, 166>>, <<171, 247, 21, 136>>, <<9, 207, 79, 60>>,
     <<160, 250, 254, 23>>, <<136, 84, 44, 177>>, <<35, 163, 57, 57>>, <<42, 108, 118, 5>>,
     <<242, 194, 149, 242>>, <<122, 150, 185, 67>>, <<89, 53, 128, 122>>, <<115, 89, 246, 127>>,
     <<61, 128, 71, 125>>, <<71, 22, 254, 62>>, <<30, 35, 126, 68>>, <<109, 122, 136, 59>>,
     <<239, 68, 165, 65>>, <<168, 82, 91, 127>>, <<182, 113, 37, 59>>, <<219, 11, 173, 0>>,
     <<212, 209, 198, 248>>, <<124, 131, 157, 135>>, <<202, 242, 184, 188>>, <<17, 249, 21, 188>>,
     <<109, 136, 163, 122>>, <<17, 11, 62, 253>>, <<219, 249, 134, 65>>, <<202, 0, 147, 253>>,
     <<78, 84, 247, 14>>, <<95, 95, 201, 243>>, <<132, 166, 79, 178>>, <<78, 166, 220, 79>>,
     <<234, 210, 115, 33>>, <<181, 141, 186, 210>>, <<49, 43, 245, 96>>, <<127, 141, 41, 47>>,
     <<172, 119, 102, 243>>, <<25, 250, 220, 33>>, <<40, 209, 41, 65>>, <<87, 92, 0, 110>>,
     <<208, 20, 249, 168>>, <<201, 238, 37, 137>>, <<225, 63, 12, 200>>, <<182, 99, 12, 166>> >>

expandedKey256Bit ==
  << <<96, 61, 235, 16>>, <<21, 202, 113, 190>>, <<43, 115, 174, 240>>, <<133, 125, 119, 129>>,
     <<31, 53, 44, 7>>, <<59, 97, 8, 215>>, <<45, 152, 16, 163>>, <<9, 20, 223, 244>>,
     <<155, 163, 84, 17>>, <<142, 105, 37, 175>>, <<165, 26, 139, 95>>, <<32, 103, 252, 222>>,
     <<168, 176, 156, 26>>, <<147, 209, 148, 205>>, <<190, 73, 132, 110>>, <<183, 93, 91, 154>>,
     <<213, 154, 236, 184>>, <<91, 243, 201, 23>>, <<254, 233, 66, 72>>, <<222, 142, 190, 150>>,
     <<181, 169, 50, 138>>, <<38, 120, 166, 71>>, <<152, 49, 34, 41>>, <<47, 108, 121, 179>>,
     <<129, 44, 129, 173>>, <<218, 223, 72, 186>>, <<36, 54, 10, 242>>, <<250, 184, 180, 100>>,
     <<152, 197, 191, 201>>, <<190, 189, 25, 142>>, <<38, 140, 59, 167>>, <<9, 224, 66, 20>>,
     <<104, 0, 123, 172>>, <<178, 223, 51, 22>>, <<150, 233, 57, 228>>, <<108, 81, 141, 128>>,
     <<200, 20, 226, 4>>, <<118, 169, 251, 138>>, <<80, 37, 192, 45>>, <<89, 197, 130, 57>>,
     <<222, 19, 105, 103>>, <<108, 204, 90, 113>>, <<250, 37, 99, 149>>, <<150, 116, 238, 21>>,
     <<88, 134, 202, 93>>, <<46, 47, 49, 215>>, <<126, 10, 241, 250>>, <<39, 207, 115, 195>>,
     <<116, 156, 71, 171>>, <<24, 80, 29, 218>>, <<226, 117, 126, 79>>, <<116, 1, 144, 90>>,
     <<202, 250, 170, 227>>, <<228, 213, 155, 52>>, <<154, 223, 106, 206>>, <<189, 16, 25, 13>>,
     <<254, 72, 144, 209>>, <<230, 24, 141, 11>>, <<4, 109, 243, 68>>, <<112, 108, 99, 30>> >>

\* C17: keyExpansion reproduces the published FIPS-197 expansions of the
\* 128-bit key 2b7e1516 ... 09cf4f3c (44 words) and of the 256-bit key
\* 603deb10 ... 0914dff4 (60 words).
PublishedExpansions ==
  /\ (Returned("keyExpansion") /\ keySize = 128 /\ key = cipherKey128Bit) =>
       keySchedule = expandedKey128Bit
  /\ (Returned("keyExpansion") /\ keySize = 256 /\ key = cipherKey256Bit) =>
       keySchedule = expandedKey256Bit

\* keyExpansion returned for the 128-bit key of FIPS-197: word 0 is 2b7e1516
\* and word 43 is b6630ca6
PublishedExpansionsWitness ==
  /\ Returned("keyExpansion")
  /\ keySize = 128
  /\ key = cipherKey128Bit
  /\ keySchedule[1] = << 43, 126, 21, 22 >>
  /\ keySchedule[44] = << 182, 99, 12, 166 >>

\* 2 to the power n, for n in 0..14
PowerOfTwo(n) == << 1, 2, 4, 8, 16, 32, 64, 128, 256, 512, 1024, 2048, 4096,
                    8192, 16384 >>[n + 1]

\* bit n of x
BitOf(x, n) == (x \div PowerOfTwo(n)) % 2

RECURSIVE CarrylessProduct(_, _, _)
\* the product of the polynomials a and b over GF(2), from bit n of b upwards
CarrylessProduct(a, b, n) ==
  IF n > 7 THEN 0
  ELSE BitXor(IF BitOf(b, n) = 1 THEN a * PowerOfTwo(n) ELSE 0,
              CarrylessProduct(a, b, n + 1))

RECURSIVE ReducedFrom(_, _)
\* x reduced modulo x^8 + x^4 + x^3 + x + 1, clearing bit n and the bits below
\* it down to bit 8
ReducedFrom(x, n) ==
  IF n < 8 THEN x
  ELSE ReducedFrom(IF BitOf(x, n) = 1 THEN BitXor(x, 283 * PowerOfTwo(n - 8)) ELSE x,
                   n - 1)

\* the product of a and b in GF(2^8)
FieldProduct(a, b) == ReducedFrom(CarrylessProduct(a, b, 0), 14)

\* multiply() returned for the arguments a and b
Multiplied == op = "multiply" /\ pc = "returned"

\* C18: for all bytes a and b, multiply(a, b) ends within 8 iterations of its
\* loop and returns a byte, the product of a and b in GF(2^8) modulo
\* x^8 + x^4 + x^3 + x + 1 as a carry-less multiply-and-reduce computes it.
MultiplyIsFieldProduct ==
  Multiplied =>
    /\ currentIteration \in 0..8
    /\ product \in 0..255
    /\ product = FieldProduct(multiplicands[1], multiplicands[2])

\* multiply(0x57, 0x83) returned 0xc1 after 8 iterations
MultiplyIsFieldProductWitness ==
  /\ Multiplied
  /\ multiplicands = << 87, 131 >>
  /\ product = 193
  /\ currentIteration = 8

\* C19: for all bytes a and b, multiply(a, 0) = 0, multiply(0, a) = 0,
\* multiply(a, 1) = a and multiply(a, b) = multiply(b, a).
MultiplyIdentities ==
  Multiplied =>
    /\ multiplicands[2] = 0 => product = 0
    /\ multiplicands[1] = 0 => product = 0
    /\ multiplicands[2] = 1 => product = multiplicands[1]
    /\ product = multiply(multiplicands[2], multiplicands[1])

\* multiply(0x80, 0x01) returned 0x80, as multiply(0x01, 0x80) does
MultiplyIdentitiesWitness ==
  /\ Multiplied
  /\ multiplicands = << 128, 1 >>
  /\ product = 128
  /\ multiply(1, 128) = 128

\* start() called encrypt() or decrypt() and AES_OUTPUT_FILE is not set
CalledFromCommandLine ==
  /\ calledWith # << >>
  /\ env.AES_OUTPUT_FILE = "undefined"

\* C20 as stated: the command line program writes the result to the file
\* named by --outputfile, and uses output.txt only when no --outputfile is
\* given.
OutputFileHonoured ==
  CalledFromCommandLine =>
    /\ args.outputfile # "undefined" => calledWith.output = args.outputfile
    /\ calledWith.output = "output.txt" => args.outputfile = "undefined"

\* --outputfile result.bin was given, nothing else names an output, and
\* encrypt() / decrypt() was called with output.txt
OutputFileIgnored ==
  /\ CalledFromCommandLine
  /\ args.outputfile = "result.bin"
  /\ args.outputfilename = "undefined"
  /\ calledWith.output = "output.txt"

\* the bytes fs.readFile delivered for the key file and for the input file
KeyFileBytes == FileData(Or(env.AES_KEY_FILE, args.keyfile))

InputFileBytes == FileData(Or(env.AES_INPUT_FILE, args.inputfile))

\* C21 as stated: once both files have been read, start() calls encrypt() or
\* decrypt() with key equal to the bytes of the key file and input equal to
\* the bytes of the input file.
FilesPassedToCall ==
  calledWith # << >> =>
    /\ calledWith.mode \in {"encrypt", "decrypt"}
    /\ Len(calledWith.key) = Len(KeyFileBytes)
    /\ calledWith.key = KeyFileBytes
    /\ calledWith.input # Undefined
    /\ calledWith.input = InputFileBytes

\* both files were read and encrypt() was called with the array of the two
\* file contents as key and undefined as input: it threw at once
ArrayPassedAsKey ==
  /\ calledWith # << >>
  /\ calledWith.mode = "encrypt"
  /\ calledWith.key = << KeyFileBytes, InputFileBytes >>
  /\ calledWith.input = Undefined
  /\ pc = "thrown"
  /\ error = "InputUndefined"
  /\ ~ opened

\* the step starts a call of an exported function
CallStarts == pc' = "open" \/ op' # op

\* the step is one of cipher() / inverseCipher() between entry and return
EngineStep == InEngine /\ pc' = pc

\* the step returns from cipher() / inverseCipher()
EngineLeaves == InEngine /\ step = "output" /\ pc' # pc

\* what a step inside a call leaves alone
CallFrame ==
  /\ keySchedule' = keySchedule
  /\ key' = key
  /\ input' = input
  /\ paddedInput' = paddedInput
  /\ EngineStep => inputSlice' = inputSlice
  /\ EngineLeaves => transformed'[Len(transformed')].input = inputSlice

\* C22: within one encrypt() / decrypt() call the key schedule is computed
\* once, when the call starts, and no later step of cipher, inverseCipher or
\* the chunk loop changes it; the caller's key and input keep their bytes, and
\* the block handed to cipher / inverseCipher is the same at return as at entry.
ScheduleAndInputsReadOnly == [][CallStarts \/ CallFrame]_vars

\* encrypt() finished three blocks and its schedule is still the expansion of
\* its key, which is still the caller's key
ScheduleAndInputsReadOnlyWitness ==
  /\ op = "encrypt"
  /\ pc = "after"
  /\ Len(transformed) = 3
  /\ key = Key(32)
  /\ keySchedule = keyExpansion(Key(32), 4, 8, 14)
  /\ \A j \in 1..3 : transformed[j].input = SubSeq(paddedInput, 16 * j - 15, 16 * j)

\* one applied step
Applied(name, r) == [step |-> name, round |-> r]

RECURSIVE CipherRounds(_, _)
\* SubBytes, ShiftRows, MixColumns, AddRoundKey for the rounds from .. to
CipherRounds(from, to) ==
  IF from > to THEN << >>
  ELSE << Applied("subBytes", from), Applied("shiftRows", from),
          Applied("mixColumns", from), Applied("addRoundKey", from) >>
         \o CipherRounds(from + 1, to)

\* the steps of cipher() for numRounds rounds
CipherSteps(numRounds) ==
  << Applied("addRoundKey", 0) >>
    \o CipherRounds(1, numRounds - 1)
    \o << Applied("subBytes", numRounds), Applied("shiftRows", numRounds),
          Applied("addRoundKey", numRounds) >>

IsMixColumns(s) == s.step = "mixColumns"

IsAddRoundKey(s) == s.step = "addRoundKey"

\* what cipher() / inverseCipher() has applied is a prefix of the steps
StartOf(steps) ==
  /\ Len(applied) <= Len(steps)
  /\ applied = SubSeq(steps, 1, Len(applied))

\* C23: cipher() applies AddRoundKey(0), then SubBytes, ShiftRows, MixColumns,
\* AddRoundKey(round) for round = 1 .. numRounds - 1 in increasing order, then
\* SubBytes, ShiftRows, AddRoundKey(numRounds): MixColumns numRounds - 1 times
\* and AddRoundKey numRounds + 1 times, with the round keys 0 .. numRounds in
\* order.
CipherStepOrder ==
  (InEngine /\ Forward) =>
    /\ StartOf(CipherSteps(NumberOfRounds))
    /\ step = "output" =>
         /\ applied = CipherSteps(NumberOfRounds)
         /\ Len(SelectSeq(applied, IsMixColumns)) = NumberOfRounds - 1
         /\ LET keys == SelectSeq(applied, IsAddRoundKey)
            IN  /\ Len(keys) = NumberOfRounds + 1
                /\ \A r \in 0..NumberOfRounds : keys[r + 1].round = r

\* cipher() under a 256-bit key is about to return after its 14 rounds
CipherStepOrderWitness ==
  /\ op = "cipher"
  /\ pc = "block"
  /\ step = "output"
  /\ keySize = 256
  /\ Len(applied) = 56
  /\ applied[53] = Applied("addRoundKey", 13)
  /\ applied[56] = Applied("addRoundKey", 14)

RECURSIVE InverseRounds(_, _)
\* InvShiftRows, InvSubBytes, AddRoundKey, InvMixColumns for the rounds
\* from .. to, downwards
InverseRounds(from, to) ==
  IF from < to THEN << >>
  ELSE << Applied("invShiftRows", from), Applied("invSubBytes", from),
          Applied("addRoundKey", from), Applied("invMixColumns", from) >>
         \o InverseRounds(from - 1, to)

\* the steps of inverseCipher() for numRounds rounds
InverseCipherSteps(numRounds) ==
  << Applied("addRoundKey", numRounds) >>
    \o InverseRounds(numRounds - 1, 1)
    \o << Applied("invShiftRows", 0), Applied("invSubBytes", 0),
          Applied("addRoundKey", 0) >>

IsInvMixColumns(s) == s.step = "invMixColumns"

\* C24: inverseCipher() applies AddRoundKey(numRounds), then InvShiftRows,
\* InvSubBytes, AddRoundKey(round), InvMixColumns for round = numRounds - 1
\* down to 1, then InvShiftRows, InvSubBytes, AddRoundKey(0): the round keys
\* numRounds .. 0 once each in that order and InvMixColumns numRounds - 1 times.
InverseCipherStepOrder ==
  (InEngine /\ ~ Forward) =>
    /\ StartOf(InverseCipherSteps(NumberOfRounds))
    /\ step = "output" =>
         /\ applied = InverseCipherSteps(NumberOfRounds)
         /\ Len(SelectSeq(applied, IsInvMixColumns)) = NumberOfRounds - 1
         /\ LET keys == SelectSeq(applied, IsAddRoundKey)
            IN  /\ Len(keys) = NumberOfRounds + 1
                /\ \A r \in 0..NumberOfRounds :
                     keys[r + 1].round = NumberOfRounds - r

\* the last block of decrypt() under a 128-bit key went through its 10 rounds
InverseCipherStepOrderWitness ==
  /\ op = "decrypt"
  /\ pc = "last"
  /\ step = "output"
  /\ keySize = 128
  /\ Len(applied) = 40
  /\ applied[1] = Applied("addRoundKey", 10)
  /\ applied[37] = Applied("invMixColumns", 1)
  /\ applied[40] = Applied("addRoundKey", 0)

\* the block engine is entered with a 16-byte buffer
EngineEnters == step' = "start" /\ applied' = << >> /\ Len(inputSlice') = 16

\* the block engine applies addRoundKey(round)
RoundKeyAdded ==
  InEngine /\ applied' = Append(applied, Applied("addRoundKey", round))

\* 16-byte buffers: those handed to cipher() and the one being transformed
SixteenBytes ==
  {b \in BlockInputs \cup {inputSlice} : Len(b) = 16}

StateMapping ==
  /\ EngineEnters =>
       \A k \in 0..15 : state'[k % 4][k \div 4] = inputSlice'[k + 1]
  /\ RoundKeyAdded =>
       \A r \in 0..3 : \A c \in 0..3 :
         state'[r][c] = Xor(state[r][c], keySchedule[4 * round + c + 1][r + 1])
  /\ EngineLeaves =>
       \A r \in 0..3 : \A c \in 0..3 :
         transformed'[Len(transformed')].output[r + 4 * c + 1] = state[r][c]

\* C25: copyInputToState puts byte i of a 16-byte buffer at
\* state[i mod 4][i div 4], copyStateToOutput puts state[r][c] at byte
\* r + 4c, copyStateToOutput(copyInputToState(b)) = b for every 16-byte
\* buffer b, and addRoundKey(round) XORs state[r][c] with byte r of schedule
\* word 4 * round + c.
ColumnMajorMapping ==
  /\ [](\A b \in SixteenBytes : copyStateToOutput(copyInputToState(b)) = b)
  /\ [][StateMapping]_vars

\* cipher() has loaded the block 00 11 .. ee ff and added round key 0
ColumnMajorMappingWitness ==
  /\ op = "cipher"
  /\ pc = "block"
  /\ step = "subBytes"
  /\ applied = << Applied("addRoundKey", 0) >>
  /\ inputSlice = Block(255)
  /\ state[3][3] = Xor(255, keySchedule[4][4])
  /\ state[1][0] = Xor(17, keySchedule[1][2])

\* the state of the unit test of shiftRows() and the result it expects
ShiftTestState ==
  [row \in 0..3 |-> [column \in 0..3 |-> 4 * row + column + 1]]

ShiftTestExpected ==
  [row \in 0..3 |->
     [column \in 0..3 |->
        << <<1, 2, 3, 4>>, <<6, 7, 8, 5>>, <<11, 12, 9, 10>>,
           <<16, 13, 14, 15>> >>[row + 1][column + 1]]]

\* 4x4 states: the one of the unit test and the one being transformed
ShiftStates == {ShiftTestState} \cup (IF InEngine THEN {state} ELSE {})

RowsShifted ==
  /\ (InEngine /\ applied' = Append(applied, Applied("shiftRows", round))) =>
       \A r \in 0..3 : \A c \in 0..3 : state'[r][c] = state[r][(c + r) % 4]
  /\ (InEngine /\ applied' = Append(applied, Applied("invShiftRows", round))) =>
       \A r \in 0..3 : \A c \in 0..3 : state'[r][(c + r) % 4] = state[r][c]

\* C26: shiftRows rotates row r of the state left by r positions (row 0
\* unchanged) and the rotated state is the state the next step works on;
\* invShiftRows rotates row r right by r positions; each undoes the other on
\* every 4x4 state.
ShiftRowsRotates ==
  /\ [](/\ shiftRows(ShiftTestState) = ShiftTestExpected
        /\ \A s \in ShiftStates :
             /\ invShiftRows(shiftRows(s)) = s
             /\ shiftRows(invShiftRows(s)) = s
             /\ shiftRows(s)[0] = s[0])
  /\ [][RowsShifted]_vars

\* shiftRows has just rotated a state whose rows are not constant
ShiftRowsRotatesWitness ==
  /\ InEngine
  /\ Forward
  /\ step = "mixColumns"
  /\ round = 1
  /\ applied[Len(applied)] = Applied("shiftRows", 1)
  /\ \A r \in 1..3 : state[r][0] # state[r][1]
  /\ invShiftRows(state) # state

\* the AES diffusion matrix
DiffusionMatrix ==
  << <<2, 3, 1, 1>>, <<1, 2, 3, 1>>, <<1, 1, 2, 3>>, <<3, 1, 1, 2>> >>

\* row r of the diffusion matrix times the column c of the loaded buffer,
\* computed with multiply()
Diffused(r, c) ==
  Xor4(multiply(input[4 * c + 1], DiffusionMatrix[r + 1][1]),
       multiply(input[4 * c + 2], DiffusionMatrix[r + 1][2]),
       multiply(input[4 * c + 3], DiffusionMatrix[r + 1][3]),
       multiply(input[4 * c + 4], DiffusionMatrix[r + 1][4]))

\* C27: mixColumns turns every column into the column of the diffusion matrix
\* [[2,3,1,1],[1,2,3,1],[1,1,2,3],[3,1,1,2]] computed with multiply(): its
\* doubling shortcut equals multiply(byte, 2), every resulting byte is in
\* 0..255, and invMixColumns applied to the result gives back the column.
MixColumnsIsDiffusion ==
  /\ Returned("mixColumns") =>
       /\ \A k \in 1..16 : shiftByte(input[k]) = multiply(input[k], 2)
       /\ \A r \in 0..3 : \A c \in 0..3 :
            /\ state[r][c] \in 0..255
            /\ state[r][c] = Diffused(r, c)
       /\ input = mixColumnsInput => copyStateToOutput(state) = mixColumnsOutput
  /\ Returned("invMixColumns") => state = copyInputToState(input)

\* invMixColumns undid mixColumns on a column holding a byte with its high
\* bit set
MixColumnsIsDiffusionWitness ==
  /\ Returned("invMixColumns")
  /\ input[1] = 255
  /\ state[0][0] = 255
  /\ input[2] = 17

\* decrypt() went through its last block, whose inverse transform ends in 0x00
LastBlockEndsInZero ==
  /\ op = "decrypt"
  /\ pc \in {"after", "done"}
  /\ transformed # << >>
  /\ LastOutput[16] = 0

\* C28: when the inverse-transformed last block of a ciphertext ends in byte
\* 0x00, decrypt() writes all 16 bytes of it, so the one-block ciphertext
\* cipher(P) of a block P ending in 0x00 decrypts to the whole of P.
ZeroEndedBlockWrittenWhole ==
  LastBlockEndsInZero =>
    /\ Len(writes) = Len(input) \div 16
    /\ Len(writes[Len(writes)]) = 16
    /\ writes[Len(writes)] = LastOutput
    /\ (origin.op = "cipher" /\ Len(input) = 16) =>
         (origin.input[16] = 0 /\ Flatten(writes) = origin.input)

\* decrypt() of cipher(00 11 .. ee 00) wrote the 16 bytes 00 11 .. ee 00
ZeroEndedBlockWrittenWholeWitness ==
  /\ LastBlockEndsInZero
  /\ origin = [op |-> "cipher", input |-> Block(0)]
  /\ Len(input) = 16
  /\ writes = << Block(0) >>

\* the block engine holds a state of bytes
ByteState ==
  InEngine /\ \A r \in 0..3 : \A c \in 0..3 : state[r][c] \in 0..255

\* C29: sBox and invSBox have 256 entries each, all in 0..255, and are
\* permutations inverse to each other, so invSubBytes undoes subBytes on every
\* state.
SBoxesMutuallyInverse ==
  /\ Len(sBox) = 256
  /\ Len(invSBox) = 256
  /\ \A x \in 0..255 :
       /\ sBox[x + 1] \in 0..255
       /\ invSBox[x + 1] \in 0..255
       /\ invSBox[sBox[x + 1] + 1] = x
       /\ sBox[invSBox[x + 1] + 1] = x
  /\ Cardinality({sBox[x + 1] : x \in 0..255}) = 256
  /\ ByteState =>
       /\ invSubBytes(subBytes(state)) = state
       /\ subBytes(invSubBytes(state)) = state

\* subBytes has just substituted the bytes of the first round of a block
SBoxesMutuallyInverseWitness ==
  /\ ByteState
  /\ Forward
  /\ step = "shiftRows"
  /\ applied[Len(applied)] = Applied("subBytes", 1)
  /\ inputSlice = Block(255)
  /\ state[3][3] = sBox[Xor(255, keySchedule[4][4]) + 1]
  /\ invSubBytes(state) # state

\* the handler of decrypt() returned for a ciphertext that passed the
\* alignment check
DecryptHandled ==
  op = "decrypt" /\ pc = "after" /\ ~ fractionalChunks(Len(input))

\* C30: for every ciphertext that passes the alignment check, decrypt() calls
\* inverseCipher len/16 times, each time on 16 bytes of the ciphertext; for a
\* zero-length ciphertext it transforms no block and writes no byte.
InverseCipherOncePerBlock ==
  DecryptHandled =>
    /\ Len(transformed) = Len(input) \div 16
    /\ \A j \in 1..Len(transformed) :
         /\ Len(transformed[j].input) = 16
         /\ transformed[j].input = SubSeq(input, 16 * j - 15, 16 * j)
    /\ Len(input) = 0 => (transformed = << >> /\ writes = << >>)

\* decrypt() of a zero-length ciphertext ran inverseCipher on an empty slice
\* and wrote bytes of its result
EmptyCiphertextTransformed ==
  /\ DecryptHandled
  /\ Len(input) = 0
  /\ Len(transformed) = 1
  /\ transformed[1].input = << >>
  /\ Len(transformed[1].output) = 16
  /\ writes # << >>

====
